---- MODULE Spec2Model ----
(***************************************************************************)
(* Flappy Bird: the manual game loop (src/main.py, main) and the NEAT      *)
(* evaluation loop (src/flappy_neat.py, eval_genomes), with the Bird,      *)
(* Pipe and Base classes both files share.                                 *)
(*                                                                         *)
(* Units.  Bird.y, Bird.vel, Bird.height and the displacement d are kept   *)
(* in HALF pixels (the code's values are all multiples of 0.5: vel is 0 or *)
(* -9.5 and d = vel*t + 1.5*t*t), so y = 2 * (the code's y).  Fitness is   *)
(* kept in TENTHS (the code adds 0.1, 5 and -1), i.e. in exact arithmetic. *)
(* Everything else (x positions, tilt, counters) is in the code's units.   *)
(***************************************************************************)
EXTENDS Integers, Sequences, FiniteSets, TLC

VARIABLES
    mode,      \* "eval" (flappy_neat.py), "main" (main.py), "bird", "base"
    pc,        \* "running", "returned", "exited", "gameover", "error"
    assets,    \* sizes of the loaded images (bird, pipe, base sprites)
    nets,      \* per agent: the decision policy (network / player)
    birds,     \* sequence of Bird objects
    ge,        \* sequence of genome fitness values, in tenths
    pipes,     \* sequence of live Pipe objects
    base,      \* the Base object
    score,     \* score
    ticks,     \* history: number of loop iterations that simulated a step
    hist,      \* history, per agent: ticks alive, passes seen alive, cause of death
    obs,       \* history of the loop: pipes created, flags flipped, events and
               \* messages seen, the pipe main's bird crashed into, the
               \* pipe_ind last used
    dhist      \* history: displacements d of the Bird.move calls since the last jump

vars == <<mode, pc, assets, nets, birds, ge, pipes, base, score, ticks, hist, obs, dhist>>

---------------------------------------------------------------------------
(* Bounds of the model *)

\* the loops are followed for at most this many ticks
MaxTicks == 190

\* largest cohort (number of genomes) handed to eval_genomes
MaxBirds == 2

\* Bird.jump / Bird.move calls followed on a lone Bird
MaxCalls == 12

---------------------------------------------------------------------------
(* Program constants *)

WIN_WIDTH == 576
BIRD_X == 230
BIRD_Y == 350
BASE_Y == 730
FIRST_PIPE_X == 700
SPAWN_MARGIN == 100
GAP == 150
PIPE_VEL == 5
BASE_VEL == 5
MAX_ROTATION == 25
ROT_VEL == 20
ANIMATION_TIME == 5
MIN_TILT == -90
TILT_DROP == 50
DRAW_TILT == -80
HEIGHT_LO == 50
HEIGHT_HI == 350

\* Bird.jump: vel = -9.5, in half pixels
JUMP_VEL == -19
\* Bird.move: the clamp d >= 16 -> 16, in half pixels
MAX_DISP == 32
\* Bird.move: d -= 2 when d < 0, in half pixels
UP_EXTRA == 4
\* fitness steps in tenths: += 0.1, += 5, -= 1
FIT_TICK == 1
FIT_PASS == 50
FIT_DEATH == 10

\* random.randrange(50, 350): the gap heights tried (both ends and one between)
Heights == {HEIGHT_LO, 201, HEIGHT_HI - 1}

\* Sizes of the images in assets/ after scale2x.  The spec's scenario uses a
\* bird sprite of height 60; 48 is tried beside it.
Assets ==
    [bird_w : {68}, bird_h : {48, 60}, pipe_w : {104}, pipe_h : {640}, base_w : {672}]

\* widths of base.png tried for a lone Base
BaseWidths == {3, 24, 672}

\* Decision policies: what nets[i].activate((y, top_dist, bottom_dist))[0] > 0.5
\* (or, in main, the player's key press) is as a function of its inputs.
\* "never" and "always" are constant outputs, "seek" steers to the middle of the
\* observed gap.
Policies == {"never", "always", "seek"}

---------------------------------------------------------------------------
(* Bird *)

\* Bird.__init__
BirdInit(x, y) ==
    [x |-> x, y |-> 2 * y, tilt |-> 0, tick_count |-> 0, vel |-> 0,
     height |-> 2 * y, img_count |-> 0, img |-> 0, alive |-> TRUE]

\* Bird.jump
BirdJump(b) ==
    [b EXCEPT !.vel = JUMP_VEL, !.tick_count = 0, !.height = b.y]

\* Displacement with the "if d < 0: d -= 2" boost left out
DisplacementNoBoost(vel, t) ==
    LET d0 == vel * t + 3 * t * t
    IN  IF d0 >= MAX_DISP THEN MAX_DISP ELSE d0

\* Displacement with the "if d >= 16: d = 16" clamp left out
DisplacementNoClamp(vel, t) ==
    LET d0 == vel * t + 3 * t * t
    IN  IF d0 < 0 THEN d0 - UP_EXTRA ELSE d0

\* Bird.move, the displacement d (half pixels) for velocity vel at tick t
Displacement(vel, t) ==
    LET d0 == vel * t + 3 * t * t
        d1 == IF d0 >= MAX_DISP THEN MAX_DISP ELSE d0
    IN  IF d1 < 0 THEN d1 - UP_EXTRA ELSE d1

\* Bird.move, the tilt update
NextTilt(b, d, y) ==
    IF d < 0 \/ y < b.height + 2 * TILT_DROP
    THEN (IF b.tilt < MAX_ROTATION THEN MAX_ROTATION ELSE b.tilt)
    ELSE (IF b.tilt > MIN_TILT THEN b.tilt - ROT_VEL ELSE b.tilt)

\* Bird.move
BirdMove(b) ==
    LET t == b.tick_count + 1
        d == Displacement(b.vel, t)
        y == b.y + d
    IN  [b EXCEPT !.tick_count = t, !.y = y, !.tilt = NextTilt(b, d, y)]

\* Bird.draw (the part that changes the Bird: frame counter and sprite)
BirdDraw(b) ==
    LET c == b.img_count + 1
    IN  IF b.tilt <= DRAW_TILT
        THEN [b EXCEPT !.img = 1, !.img_count = ANIMATION_TIME * 2]
        ELSE [b EXCEPT !.img = (c \div ANIMATION_TIME) % 3, !.img_count = c]

\* Python round() of the code's y = y2 / 2: halves go to the even integer
Round(y2) ==
    IF y2 % 2 = 0 THEN y2 \div 2
    ELSE LET m == (y2 - 1) \div 2 IN IF m % 2 = 0 THEN m ELSE m + 1

---------------------------------------------------------------------------
(* Pipe *)

\* set_height measuring the lower pipe from the upper pipe's drawing position
\* instead of from the gap
PipeInitGapFromTop(x, h, a) ==
    [x |-> x, height |-> h, top |-> h - a.pipe_h, bottom |-> h - a.pipe_h + GAP,
     passed |-> FALSE]

\* Pipe.__init__ with set_height, h the value random.randrange returned
PipeInit(x, h, a) ==
    [x |-> x, height |-> h, top |-> h - a.pipe_h, bottom |-> h + GAP, passed |-> FALSE]

\* Pipe.move
PipeMove(p) == [p EXCEPT !.x = p.x - PIPE_VEL]

\* the rectangle test without the pipe's right edge
RectsMeetNoRightEdge(ox, oy, a) ==
    /\ ox < a.bird_w
    /\ oy < a.bird_h /\ oy + a.pipe_h > 0

\* mask.overlap can only find a common pixel where the two sprites' rectangles
\* meet: the bird's (bird_w x bird_h at the origin) and one pipe extent's
\* (pipe_w x pipe_h at the offset (ox, oy))
RectsMeet(ox, oy, a) ==
    /\ ox < a.bird_w /\ ox + a.pipe_w > 0
    /\ oy < a.bird_h /\ oy + a.pipe_h > 0

\* Pipe.collide: the offsets it computes; TRUE when the top extent can overlap
TopMayHit(p, b, a) == RectsMeet(p.x - b.x, p.top - Round(b.y), a)

\* Pipe.collide: TRUE when the bottom extent can overlap
BottomMayHit(p, b, a) == RectsMeet(p.x - b.x, p.bottom - Round(b.y), a)

\* Pipe.collide: the results it can return.  Inside the rectangles the answer
\* depends on the pixels of the images, so both answers are possible there.
Collide(p, b, a) ==
    IF TopMayHit(p, b, a) \/ BottomMayHit(p, b, a) THEN BOOLEAN ELSE {FALSE}

---------------------------------------------------------------------------
(* Base *)

\* Base.__init__
BaseInit(y, w) == [y |-> y, x1 |-> 0, x2 |-> w, WIDTH |-> w]

\* BaseMove wrapping a segment to the fixed offset WIDTH instead of to the
\* right end of the other segment
BaseMoveReset(s) ==
    LET a1 == s.x1 - BASE_VEL
        a2 == s.x2 - BASE_VEL
        b1 == IF a1 + s.WIDTH < 0 THEN s.WIDTH ELSE a1
        b2 == IF a2 + s.WIDTH < 0 THEN s.WIDTH ELSE a2
    IN  [s EXCEPT !.x1 = b1, !.x2 = b2]

\* Base.move
BaseMove(s) ==
    LET a1 == s.x1 - BASE_VEL
        a2 == s.x2 - BASE_VEL
        b1 == IF a1 + s.WIDTH < 0 THEN a2 + s.WIDTH ELSE a1
        b2 == IF a2 + s.WIDTH < 0 THEN b1 + s.WIDTH ELSE a2
    IN  [s EXCEPT !.x1 = b1, !.x2 = b2]

---------------------------------------------------------------------------
(* Helpers *)

Abs(n) == IF n < 0 THEN -n ELSE n

\* the subsequence of s at the indices not in drop, in order
RECURSIVE Without(_, _, _)
Without(s, drop, j) ==
    IF j > Len(s) THEN <<>>
    ELSE (IF j \in drop THEN <<>> ELSE <<s[j]>>) \o Without(s, drop, j + 1)

\* [b for b in birds if b.alive]
AliveBirds(bs) == SelectSeq(bs, LAMBDA b : b.alive)

\* output[0] > 0.5 for a policy fed (y, top_dist, bottom_dist), in half pixels
Decide(policy, y, top_dist, bottom_dist) ==
    CASE policy = "never" -> FALSE
      [] policy = "always" -> TRUE
      [] OTHER -> top_dist > bottom_dist

\* the player's SPACE key in main: one of the policies above, or "dive", which
\* steers to the gap until the pipe ahead reaches the bird and then lets go
Players == Policies \cup {"dive"}

PlayerJump(player, b, seen, a) ==
    LET aim == Decide("seek", b.y, Abs(b.y - 2 * seen.height),
                      Abs(b.y - 2 * (seen.height + GAP)))
    IN  IF player = "dive" THEN seen.x - b.x >= a.bird_w /\ aim
        ELSE Decide(player, b.y, Abs(b.y - 2 * seen.height),
                    Abs(b.y - 2 * (seen.height + GAP)))

\* history record of one agent
NoHist == [k |-> 0, p |-> 0, cause |-> "none", died |-> 0, jumped |-> 0]

---------------------------------------------------------------------------
(* eval_genomes: one iteration of "while run_simulation" *)

\* pipe_ind switching at the first pipe's left edge
PipeIndNoWidth(ps, alive_birds, a) ==
    IF Len(ps) > 1 /\ alive_birds[1].x > ps[1].x THEN 2 ELSE 1

\* pipe_ind (1-based here): the second pipe once the first alive bird is past
\* the first pipe's right edge
PipeInd(ps, alive_birds, a) ==
    IF Len(ps) > 1 /\ alive_birds[1].x > ps[1].x + a.pipe_w THEN 2 ELSE 1

\* the body of "for i, bird in enumerate(birds)" for one bird: move, observe,
\* decide, jump
AgentStep(b, policy, p) ==
    IF ~b.alive THEN b
    ELSE LET m == BirdMove(b)
             top_dist == Abs(m.y - 2 * p.height)
             bottom_dist == Abs(m.y - 2 * (p.height + GAP))
         IN  IF Decide(policy, m.y, top_dist, bottom_dist) THEN BirdJump(m) ELSE m

\* ge[i].fitness += 0.1 for the birds alive in that loop
SurvivalBonus(fit, bs) ==
    [i \in DOMAIN fit |-> IF bs[i].alive THEN fit[i] + FIT_TICK ELSE fit[i]]

\* the (pipe, bird) pairs for which pipe.collide(bird) can return a hit this
\* tick: pipes after their move, birds after theirs
CollPairs(ps, bs, a) ==
    {pr \in (DOMAIN ps) \X (DOMAIN bs) :
        bs[pr[2]].alive /\ TRUE \in Collide(PipeMove(ps[pr[1]]), bs[pr[2]], a)}

\* "if bird.alive and pipe.collide(bird)": the birds pipe j kills, coll being
\* the pairs for which collide returns a hit
Killed(j, bs, coll) == {i \in DOMAIN bs : bs[i].alive /\ <<j, i>> \in coll}

\* CollideAlive written as "bird.alive = not pipe.collide(bird)"
CollideAliveAssign(b, hits) == ~hits

\* bird.alive after that statement, hits: pipe.collide(bird) reports a hit
CollideAlive(b, hits) == b.alive /\ ~hits

\* JustPassed with >= for >
JustPassedGe(p, ref) == ~p.passed /\ ref.x >= p.x

\* JustPassed without the "not pipe.passed" test
JustPassedAgain(p, ref) == ref.x > p.x

\* "if not pipe.passed and birds[0].x > pipe.x"
JustPassed(p, ref) == ~p.passed /\ ref.x > p.x

\* the removal test taken against the window's right edge
OffScreenRightEdge(p, a) == p.x + a.pipe_w < WIN_WIDTH

\* "if pipe.x + pipe.PIPE_TOP.get_width() < 0"
OffScreen(p, a) == p.x + a.pipe_w < 0

\* "for pipe in pipes" of eval_genomes, from pipe j on.  st carries the
\* pipes, birds, fitness, add_pipe, rem and the histories.
RECURSIVE EvalPipeLoop(_, _, _, _)
EvalPipeLoop(j, st, coll, a) ==
    IF j > Len(st.pipes) THEN st
    ELSE LET p1 == PipeMove(st.pipes[j])
             hit == Killed(j, st.birds, coll)
             bs == [i \in DOMAIN st.birds |->
                       [st.birds[i] EXCEPT
                           !.alive = CollideAlive(st.birds[i], <<j, i>> \in coll)]]
             fit == [i \in DOMAIN st.ge |->
                       IF i \in hit THEN st.ge[i] - FIT_DEATH ELSE st.ge[i]]
             hs == [i \in DOMAIN st.hist |->
                       IF i \in hit
                       THEN [st.hist[i] EXCEPT !.cause = "collision", !.died = st.tick]
                       ELSE st.hist[i]]
             pass == JustPassed(p1, bs[1])
             p2 == IF pass THEN [p1 EXCEPT !.passed = TRUE] ELSE p1
         IN  EvalPipeLoop(j + 1,
                 [st EXCEPT !.pipes[j] = p2, !.birds = bs, !.ge = fit, !.hist = hs,
                            !.add_pipe = @ \/ pass,
                            !.flipped = IF ~p1.passed /\ p2.passed THEN @ + 1 ELSE @,
                            !.rem = IF OffScreen(p1, a) THEN @ \union {j} ELSE @],
                 coll, a)

\* "if add_pipe: ... for genome in ge: genome.fitness += 5"
PassBonus(fit, bs) == [i \in DOMAIN fit |-> fit[i] + FIT_PASS]

\* OutOfBounds testing the sprite's top edge against the ground line
OutOfBoundsNoHeight(b, s, a) == b.y >= 2 * s.y \/ b.y < 0

\* "bird.y + bird.img.get_height() >= base.y or bird.y < 0"
OutOfBounds(b, s, a) == b.y + 2 * a.bird_h >= 2 * s.y \/ b.y < 0

\* the last loop of the tick: "if bird.alive and (out of bounds): bird.alive = False"
BoundaryAlive(b, s, a) == b.alive /\ ~OutOfBounds(b, s, a)

\* the last loop charging every bird that is out of bounds, dead or alive
BoundaryKilledNoAliveTest(bs, s, a) ==
    {i \in DOMAIN bs : OutOfBounds(bs[i], s, a)}

\* the last loop of the tick: the birds it marks dead and charges -1
BoundaryKilled(bs, s, a) ==
    {i \in DOMAIN bs : bs[i].alive /\ OutOfBounds(bs[i], s, a)}

\* draw_window of eval_genomes: bird.draw for the alive birds
DrawBirds(bs) == [i \in DOMAIN bs |-> IF bs[i].alive THEN BirdDraw(bs[i]) ELSE bs[i]]

\* GenerationOver ending the generation while one bird is still alive
GenerationOverEarly(bs) == Len(AliveBirds(bs)) <= 1

\* GenerationOver with the test left out
GenerationOverNever(bs) == Len(AliveBirds(bs)) < 0

\* "if alive_count == 0: break"
GenerationOver(bs) == Len(AliveBirds(bs)) = 0

\* The iteration raises IndexError: alive_birds[0] with no bird alive,
\* pipes[pipe_ind] with no pipe, or birds[0] with no bird
RaisesIndexError(ps, bs) ==
    \/ Len(ps) > 1 /\ Len(AliveBirds(bs)) = 0
    \/ Len(ps) = 0 /\ Len(AliveBirds(bs)) > 0
    \/ Len(bs) = 0 /\ \E j \in DOMAIN ps : ~ps[j].passed

\* One iteration.  quit: a QUIT event is in the queue; coll: the pairs for
\* which collide reports a hit; h: the height random.randrange gives a new pipe.
EvalGenomesTick ==
    /\ mode = "eval" /\ pc = "running" /\ ticks < MaxTicks
    /\ \E quit \in BOOLEAN :
        IF quit
        THEN /\ pc' = "exited"
             /\ obs' = [obs EXCEPT !.quit = TRUE]
             /\ UNCHANGED <<mode, assets, nets, birds, ge, pipes, base, score,
                            ticks, hist, dhist>>
        ELSE IF GenerationOver(birds)
        THEN /\ pc' = "returned"
             /\ UNCHANGED <<mode, assets, nets, birds, ge, pipes, base, score,
                            ticks, hist, obs, dhist>>
        ELSE IF RaisesIndexError(pipes, birds)
        THEN /\ pc' = "error"
             /\ UNCHANGED <<mode, assets, nets, birds, ge, pipes, base, score,
                            ticks, hist, obs, dhist>>
        ELSE LET ind == PipeInd(pipes, AliveBirds(birds), assets)
                 moved == [i \in DOMAIN birds |->
                              AgentStep(birds[i], nets[i], pipes[ind])]
                 fit1 == SurvivalBonus(ge, birds)
                 hist1 == [i \in DOMAIN hist |->
                              IF birds[i].alive
                              THEN [hist[i] EXCEPT !.k = @ + 1,
                                       !.jumped = IF moved[i].tick_count = 0
                                                  THEN ticks + 1 ELSE @]
                              ELSE hist[i]]
             IN  \E coll \in SUBSET CollPairs(pipes, moved, assets), h \in Heights :
                 LET st == EvalPipeLoop(1,
                              [pipes |-> pipes, birds |-> moved, ge |-> fit1,
                               hist |-> hist1, add_pipe |-> FALSE, flipped |-> 0,
                               rem |-> {}, tick |-> ticks + 1],
                              coll, assets)
                     fit2 == IF st.add_pipe THEN PassBonus(st.ge, st.birds) ELSE st.ge
                     hist2 == [i \in DOMAIN hist |->
                                  IF st.add_pipe /\ st.birds[i].alive
                                  THEN [st.hist[i] EXCEPT !.p = @ + 1]
                                  ELSE st.hist[i]]
                     ps1 == IF st.add_pipe
                            THEN Append(st.pipes,
                                    PipeInit(WIN_WIDTH + SPAWN_MARGIN, h, assets))
                            ELSE st.pipes
                     ps2 == Without(ps1, st.rem, 1)
                     out == BoundaryKilled(st.birds, base, assets)
                     bs2 == [i \in DOMAIN birds |->
                                [st.birds[i] EXCEPT
                                    !.alive = BoundaryAlive(st.birds[i], base, assets)]]
                 IN  /\ (~st.add_pipe => h = HEIGHT_LO)
                     /\ pc' = "running"
                     /\ birds' = DrawBirds(bs2)
                     /\ ge' = [i \in DOMAIN ge |->
                                  IF i \in out THEN fit2[i] - FIT_DEATH ELSE fit2[i]]
                     /\ hist' = [i \in DOMAIN hist |->
                                  IF i \in out
                                  THEN [hist2[i] EXCEPT !.cause = "boundary",
                                                        !.died = ticks + 1]
                                  ELSE hist2[i]]
                     /\ pipes' = ps2
                     /\ score' = IF st.add_pipe THEN score + 1 ELSE score
                     /\ base' = BaseMove(base)
                     /\ ticks' = ticks + 1
                     /\ obs' = [obs EXCEPT
                                  !.ind = ind,
                                  !.created = IF st.add_pipe THEN @ + 1 ELSE @,
                                  !.flipped = @ + st.flipped,
                                  !.removed = @ + Cardinality(st.rem),
                                  !.removedPassed = @ + Cardinality(
                                      {j \in st.rem : st.pipes[j].passed})]
                     /\ UNCHANGED <<mode, assets, nets, dhist>>

---------------------------------------------------------------------------
(* main: one iteration of "while run" *)

\* "for p in pipes" of main, from pipe j on.  st carries the pipes, the bird,
\* run, add_pipe, rem and the histories.
RECURSIVE MainPipeLoop(_, _, _, _)
MainPipeLoop(j, st, coll, a) ==
    IF j > Len(st.pipes) THEN st
    ELSE LET p1 == PipeMove(st.pipes[j])
             hit == <<j, 1>> \in coll
             pass == JustPassed(p1, st.bird)
             p2 == IF pass THEN [p1 EXCEPT !.passed = TRUE] ELSE p1
         IN  MainPipeLoop(j + 1,
                 [st EXCEPT !.pipes[j] = p2,
                            !.bird = IF hit THEN BirdDraw(@) ELSE @,
                            !.run = @ /\ ~hit,
                            !.msgs = IF hit THEN Append(@, "Crashed!") ELSE @,
                            !.crashX = IF hit THEN p1.x ELSE @,
                            !.crashPassed = IF hit THEN p1.passed ELSE @,
                            !.add_pipe = @ \/ pass,
                            !.flipped = IF ~p1.passed /\ p2.passed THEN @ + 1 ELSE @,
                            !.rem = IF OffScreen(p1, a) THEN @ \union {j} ELSE @],
                 coll, a)

\* the event loop of main: the bird after the KEYDOWN events there are
AfterEvents(b, jump) == IF jump THEN BirdJump(b) ELSE b

\* One iteration.  quit: a QUIT (or ESC) event is in the queue, after the
\* player's key press, which follows the policy nets[1]; coll and h as in
\* EvalGenomesTick.  On QUIT the code sets run = False and breaks out of the
\* "for event" loop only: the rest of the iteration still runs.
MainTick ==
    /\ mode = "main" /\ pc = "running" /\ ticks < MaxTicks
    /\ \E quit \in BOOLEAN :
        LET b == birds[1]
            seen == pipes[PipeInd(pipes, birds, assets)]
            jump == PlayerJump(nets[1], b, seen, assets)
            b1 == BirdMove(AfterEvents(b, jump))
        IN  \E coll \in SUBSET CollPairs(pipes, <<b1>>, assets), h \in Heights :
            LET st == MainPipeLoop(1,
                         [pipes |-> pipes, bird |-> b1, run |-> ~quit,
                          msgs |-> obs.msgs, add_pipe |-> FALSE, flipped |-> 0,
                          rem |-> {}, crashX |-> obs.crashX,
                          crashPassed |-> obs.crashPassed],
                         coll, assets)
                ps1 == IF st.add_pipe
                       THEN Append(st.pipes,
                               PipeInit(WIN_WIDTH + SPAWN_MARGIN, h, assets))
                       ELSE st.pipes
                ps2 == Without(ps1, st.rem, 1)
                oob == OutOfBounds(st.bird, base, assets)
                b2 == IF oob THEN BirdDraw(st.bird) ELSE st.bird
                msgs2 == IF oob THEN Append(st.msgs, "Hit Ground / Out of bounds")
                         ELSE st.msgs
                run2 == st.run /\ ~oob
                crashed == Len(st.msgs) > Len(obs.msgs)
            IN  /\ (~st.add_pipe => h = HEIGHT_LO)
                /\ pc' = IF run2 THEN "running" ELSE "gameover"
                /\ birds' = <<BirdDraw(b2)>>
                /\ pipes' = ps2
                /\ score' = IF st.add_pipe THEN score + 1 ELSE score
                /\ base' = BaseMove(base)
                /\ ticks' = ticks + 1
                /\ hist' = [hist EXCEPT
                              ![1].k = @ + 1,
                              ![1].jumped = IF jump THEN ticks + 1 ELSE @,
                              ![1].cause = IF crashed THEN "collision"
                                           ELSE IF oob THEN "boundary" ELSE @,
                              ![1].died = IF crashed \/ oob THEN ticks + 1 ELSE @]
                /\ obs' = [obs EXCEPT
                              !.created = IF st.add_pipe THEN @ + 1 ELSE @,
                              !.flipped = @ + st.flipped,
                              !.removed = @ + Cardinality(st.rem),
                              !.removedPassed = @ + Cardinality(
                                  {j \in st.rem : st.pipes[j].passed}),
                              !.quit = quit,
                              !.msgs = msgs2,
                              !.crashX = st.crashX,
                              !.crashPassed = st.crashPassed]
                /\ UNCHANGED <<mode, assets, nets, ge, dhist>>

---------------------------------------------------------------------------
(* A lone Bird and a lone Base *)

\* bird.jump() on the lone Bird
JumpCall ==
    /\ mode = "bird" /\ ticks < MaxCalls
    /\ birds' = <<BirdJump(birds[1])>>
    /\ dhist' = <<>>
    /\ ticks' = ticks + 1
    /\ UNCHANGED <<mode, pc, assets, nets, ge, pipes, base, score, hist, obs>>

\* bird.move() on the lone Bird
MoveCall ==
    /\ mode = "bird" /\ ticks < MaxCalls
    /\ birds' = <<BirdMove(birds[1])>>
    /\ dhist' = Append(dhist, birds'[1].y - birds[1].y)
    /\ ticks' = ticks + 1
    /\ UNCHANGED <<mode, pc, assets, nets, ge, pipes, base, score, hist, obs>>

\* base.move() on the lone Base
BaseMoveCall ==
    /\ mode = "base"
    /\ base' = BaseMove(base)
    /\ UNCHANGED <<mode, pc, assets, nets, birds, ge, pipes, score, ticks, hist,
                   obs, dhist>>

---------------------------------------------------------------------------
(* Initial states *)

NoObs ==
    [created |-> 1, flipped |-> 0, removed |-> 0, removedPassed |-> 0,
     quit |-> FALSE, msgs |-> <<>>, crashX |-> 0, crashPassed |-> FALSE,
     ind |-> 0]

\* eval_genomes up to "score = 0": one Bird(230, 350) and fitness 0 per genome,
\* Base(730), pipes = [Pipe(700)]
InitEval ==
    /\ mode = "eval" /\ pc = "running"
    /\ assets \in Assets
    /\ \E n \in 0..MaxBirds :
        /\ nets \in [1..n -> Policies]
        /\ birds = [i \in 1..n |-> BirdInit(BIRD_X, BIRD_Y)]
        /\ ge = [i \in 1..n |-> 0]
        /\ hist = [i \in 1..n |-> NoHist]
    /\ \E h \in Heights : pipes = <<PipeInit(FIRST_PIPE_X, h, assets)>>
    /\ base = BaseInit(BASE_Y, assets.base_w)
    /\ score = 0 /\ ticks = 0 /\ obs = NoObs /\ dhist = <<>>

\* main up to "run = True": Bird(230, 350), Base(730), pipes = [Pipe(700)]
InitMain ==
    /\ mode = "main" /\ pc = "running"
    /\ assets \in Assets
    /\ nets \in [1..1 -> Players]
    /\ birds = <<BirdInit(BIRD_X, BIRD_Y)>>
    /\ ge = <<>>
    /\ hist = <<NoHist>>
    /\ \E h \in Heights : pipes = <<PipeInit(FIRST_PIPE_X, h, assets)>>
    /\ base = BaseInit(BASE_Y, assets.base_w)
    /\ score = 0 /\ ticks = 0 /\ obs = NoObs /\ dhist = <<>>

\* a Bird(230, 350) on its own
InitBird ==
    /\ mode = "bird" /\ pc = "running"
    /\ assets \in {x \in Assets : x.bird_h = 60}
    /\ nets = <<>> /\ ge = <<>> /\ hist = <<>> /\ pipes = <<>>
    /\ birds = <<BirdInit(BIRD_X, BIRD_Y)>>
    /\ base = BaseInit(BASE_Y, assets.base_w)
    /\ score = 0 /\ ticks = 0 /\ obs = NoObs /\ dhist = <<>>

\* a Base(730) on its own, for each width of base.png tried
InitBase ==
    /\ mode = "base" /\ pc = "running"
    /\ assets \in {x \in Assets : x.bird_h = 60}
    /\ nets = <<>> /\ ge = <<>> /\ hist = <<>> /\ pipes = <<>> /\ birds = <<>>
    /\ \E w \in BaseWidths : base = BaseInit(BASE_Y, w)
    /\ score = 0 /\ ticks = 0 /\ obs = NoObs /\ dhist = <<>>

Init == InitEval \/ InitMain

Next == EvalGenomesTick \/ MainTick

Spec == Init /\ [][Next]_vars

NextBird == JumpCall \/ MoveCall

SpecBird == InitBird /\ [][NextBird]_vars

SpecBase == InitBase /\ [][BaseMoveCall]_vars

---------------------------------------------------------------------------
(* Properties *)

\* the agents of the evaluation loop
Agents == DOMAIN birds

\* the pipes whose passed flag is set, live or already removed
PassedEver == Cardinality({j \in DOMAIN pipes : pipes[j].passed}) + obs.removedPassed

\* the live, unpassed pipes the reference agent's x strictly exceeds once
\* they have moved in the coming tick
Due == {j \in DOMAIN pipes : ~pipes[j].passed /\ birds[1].x > pipes[j].x - PIPE_VEL}

\* C1: when eval_genomes returns, a genome whose agent never collided, was
\* alive at the start of k ticks and saw p pipes marked passed while alive has
\* fitness 0.1*k + 5*p, minus 1 if it died by the boundary test (in tenths).
C1_FitnessFormula ==
    (mode = "eval" /\ pc = "returned") =>
        \A i \in Agents :
            hist[i].cause # "collision" =>
                ge[i] = FIT_TICK * hist[i].k + FIT_PASS * hist[i].p
                        - (IF hist[i].cause = "boundary" THEN FIT_DEATH ELSE 0)

\* C2: in both loops score never decreases, a simulated tick adds exactly one
\* per unpassed pipe the reference agent's x then strictly exceeds, and score
\* is the number of pipes whose passed flag is set, removed ones included.
C2_ScoreCountsPassed ==
    /\ [](mode \in {"eval", "main"} => score = PassedEver)
    /\ [][/\ score' >= score
          /\ ticks' # ticks => score' = score + Cardinality(Due)]_vars

C2_Witness == mode = "main" /\ score = 2 /\ obs.removedPassed >= 1

\* C3: after construction and after every Base.move the two segment offsets
\* differ by exactly WIDTH.
C3_GroundGapFree == Abs(base.x1 - base.x2) = base.WIDTH

C3_Witness == mode = "base" /\ base.WIDTH = 672 /\ base.x1 > base.x2

\* C4: the displacement of a Bird.move is never more than +16, and over the
\* moves since the last jump (or since construction) it does not decrease
\* again once it has stopped decreasing.
C4_DisplacementClamped ==
    /\ \A n \in DOMAIN dhist : dhist[n] <= MAX_DISP
    /\ \A n \in DOMAIN dhist :
          (n + 2 \in DOMAIN dhist /\ dhist[n] <= dhist[n + 1])
              => dhist[n + 1] <= dhist[n + 2]

C4_Witness ==
    /\ mode = "bird" /\ birds[1].vel = JUMP_VEL /\ Len(dhist) >= 9
    /\ dhist[1] < 0 /\ dhist[Len(dhist)] = MAX_DISP

\* C5: eval_genomes returns only with no agent alive, it returns (a quit
\* aside) in the first iteration that starts with no agent alive, also when
\* the last agents died in the same tick, it raises no error, and at the return
\* every genome has a numeric fitness.
C5_ReturnsWhenAllDead ==
    /\ [](mode = "eval" /\ pc = "returned" =>
            /\ \A i \in Agents : ~birds[i].alive
            /\ DOMAIN ge = DOMAIN nets /\ \A i \in DOMAIN ge : ge[i] \in Int)
    /\ [](mode = "eval" => pc # "error")
    /\ [][(mode = "eval" /\ pc = "running" /\ \A i \in Agents : ~birds[i].alive)
            => (pc' \in {"returned", "exited"} /\ ticks' = ticks /\ ge' = ge)]_vars

C5_Witness ==
    /\ mode = "eval" /\ pc = "returned" /\ Len(birds) = 2
    /\ hist[1].died = hist[2].died /\ hist[1].died > 0

\* C6: with no genome eval_genomes returns in its first iteration: no error,
\* no tick simulated, pipes and score as constructed, no fitness written.
C6_EmptyCohort ==
    /\ [](mode = "eval" /\ Len(birds) = 0 =>
            /\ pc \in {"running", "returned", "exited"}
            /\ ticks = 0 /\ score = 0 /\ ge = <<>>
            /\ Len(pipes) = 1 /\ pipes[1].x = FIRST_PIPE_X /\ ~pipes[1].passed
            /\ base.x1 = 0)
    /\ [][(mode = "eval" /\ Len(birds) = 0 /\ pc = "running")
            => pc' \in {"returned", "exited"}]_vars

C6_Witness == mode = "eval" /\ Len(birds) = 0 /\ pc = "returned"

\* C7: within one eval_genomes invocation an agent that is dead stays dead.
C7_DeadStaysDead ==
    [][mode = "eval" => \A i \in Agents : ~birds[i].alive => ~birds'[i].alive]_vars

C7_Witness ==
    /\ mode = "eval" /\ pc = "running"
    /\ \E i, j \in Agents :
          /\ ~birds[i].alive /\ hist[i].died < ticks /\ hist[i].cause = "collision"
          /\ birds[j].alive

\* C8: with a sprite of height 60 an agent that never jumps is ended by the
\* ground test in tick 22, whatever the gap heights, and not by a collision
\* before.
C8_NeverJumpHitsGround ==
    (mode \in {"eval", "main"} /\ assets.bird_h = 60) =>
        \A i \in Agents :
            nets[i] = "never" =>
                /\ hist[i].cause # "collision"
                /\ ticks < 22 => hist[i].cause = "none"
                /\ ticks >= 22 =>
                      /\ hist[i].cause = "boundary" /\ hist[i].died = 22
                      /\ birds[i].y + 2 * assets.bird_h >= 2 * base.y
                /\ mode = "eval" => (birds[i].alive <=> hist[i].cause = "none")
                /\ mode = "main" =>
                      /\ pc = "gameover" <=> (hist[i].cause # "none" \/ obs.quit)
                      /\ hist[i].cause = "boundary" =>
                            obs.msgs = <<"Hit Ground / Out of bounds">>

C8_Witness ==
    /\ mode = "main" /\ assets.bird_h = 60 /\ nets[1] = "never"
    /\ hist[1].cause = "boundary" /\ ~obs.quit /\ pipes[1].height = HEIGHT_HI - 1

\* C9: in the tick in which the quit signal is read nothing of the
\* simulation is applied: birds, pipes, score, fitness and ground stay as
\* they were.
C9_QuitStopsTick ==
    [][(obs'.quit /\ ~obs.quit) =>
          (birds' = birds /\ pipes' = pipes /\ score' = score /\ ge' = ge
           /\ base' = base)]_vars

\* C10: a pipe is created, at x = WIN_WIDTH + 100, in exactly the ticks in
\* which a passed flag changes from false to true, so the pipes ever created
\* number score + 1.
C10_SpawnOnPass ==
    /\ [](mode \in {"eval", "main"} => obs.created = score + 1)
    /\ [][IF obs'.flipped # obs.flipped
          THEN /\ obs'.created = obs.created + 1
               /\ Len(pipes') = Len(pipes) + 1 - (obs'.removed - obs.removed)
               /\ pipes'[Len(pipes')].x = WIN_WIDTH + SPAWN_MARGIN
               /\ ~pipes'[Len(pipes')].passed
          ELSE /\ obs'.created = obs.created
               /\ Len(pipes') = Len(pipes) - (obs'.removed - obs.removed)]_vars

C10_Witness == mode = "eval" /\ obs.created = 3 /\ score = 2 /\ obs.removed = 1

\* C11: every live pipe has 50 <= height < 350, its lower pipe starts at
\* height + 150 and its upper pipe ends at height (it is drawn pipe_h above),
\* so the opening is exactly 150; a pipe that moves keeps all three values.
C11_PipeGap ==
    /\ [](\A j \in DOMAIN pipes :
            /\ HEIGHT_LO <= pipes[j].height /\ pipes[j].height < HEIGHT_HI
            /\ pipes[j].bottom = pipes[j].height + GAP
            /\ pipes[j].top + assets.pipe_h = pipes[j].height
            /\ pipes[j].bottom - (pipes[j].top + assets.pipe_h) = GAP)
    /\ [][\A j \in DOMAIN pipes, k \in DOMAIN pipes' :
            pipes'[k].x = pipes[j].x - PIPE_VEL =>
                /\ pipes'[k].height = pipes[j].height
                /\ pipes'[k].top = pipes[j].top
                /\ pipes'[k].bottom = pipes[j].bottom]_vars

C11_Witness ==
    /\ Len(pipes) = 2 /\ pipes[1].x < BIRD_X
    /\ pipes[1].height = HEIGHT_HI - 1 /\ pipes[2].height = HEIGHT_LO
    /\ pipes[2].x < WIN_WIDTH + SPAWN_MARGIN

\* the cohort of eval_genomes in which every net always outputs 1.0
AllAlways == mode = "eval" /\ \A i \in Agents : nets[i] = "always"

\* C12 as stated: with every agent jumping in every tick, an agent is marked
\* dead by the y < 0 test only in a tick at least 2 ticks after its last
\* earlier jump.
C12_NoTopDeathNearJump ==
    [][\A i \in Agents :
          (AllAlways /\ birds[i].alive /\ ~birds'[i].alive /\ birds'[i].y < 0)
              => (ticks + 1) - hist[i].jumped >= 2]_vars

\* C12 amended: such an agent is 1.5 below its start after the first tick and
\* 10 higher after every later one, is never marked dead in the 2 ticks after
\* its first jump nor in any tick before the 37th, and is marked dead by the
\* y < 0 test in the 37th tick, one tick after its 36th jump.
C12_TopDeathTick ==
    /\ [](AllAlways =>
            \A i \in Agents :
                /\ (birds[i].alive /\ ticks >= 1) =>
                       birds[i].y = 2 * BIRD_Y + 3 - 20 * (ticks - 1)
                /\ ~birds[i].alive =>
                       /\ hist[i].cause = "boundary" /\ birds[i].y < 0
                       /\ hist[i].died = 37 /\ hist[i].jumped = 37
                /\ (ticks >= 37) => ~birds[i].alive)
    /\ [][\A i \in Agents :
            (AllAlways /\ birds[i].alive /\ ~birds'[i].alive)
                => (hist[i].jumped = 36 /\ ticks + 1 = 37)]_vars

C12_Witness ==
    /\ AllAlways /\ Len(birds) = 2
    /\ \A i \in Agents : ~birds[i].alive /\ birds[i].y < 0 /\ hist[i].died = 37

\* C13: the fitness of a genome whose agent is dead at the start of a tick is
\* left unchanged by the tick, bonus step included; only the genomes of
\* agents alive at the bonus step receive the +5.
C13_BonusOnlyAlive ==
    [][mode = "eval" =>
          \A i \in Agents :
              /\ ~birds[i].alive => ge'[i] = ge[i]
              /\ (ge'[i] - ge[i] >= FIT_PASS - FIT_DEATH) =>
                     (birds[i].alive /\ score' = score + 1)]_vars

\* C14: after any sequence of jump() and move() calls the bird's tilt lies in
\* [-90, 25].
C14_TiltRange ==
    \A i \in DOMAIN birds :
        MIN_TILT <= birds[i].tilt /\ birds[i].tilt <= MAX_ROTATION

\* C15: in main a tick renders at most one terminal message, a tick that
\* renders one is the last, and the tick in which the collision is detected
\* changes neither the score nor the pipe list and takes no boundary
\* transition.
C15_OneTerminalTransition ==
    [][mode = "main" =>
          LET new == Len(obs'.msgs) - Len(obs.msgs)
              crashed == new >= 1 /\ obs'.msgs[Len(obs.msgs) + 1] = "Crashed!"
          IN  /\ new <= 1
              /\ new = 1 => pc' = "gameover"
              /\ crashed => /\ score' = score
                            /\ obs'.created = obs.created
                            /\ obs'.removed = obs.removed]_vars

\* main's bird has crashed into a pipe
Crashed == mode = "main" /\ hist[1].cause = "collision"

\* C16 as stated: in main no collision is detected with a pipe whose passed
\* flag was set, and counted in score, in an earlier tick.
C16_NoCrashAfterCount == Crashed => ~obs.crashPassed

\* C16 amended: a pipe is counted once its left edge is behind the bird's x,
\* hit later or not; a collision is detected only with a pipe that overlaps
\* the bird horizontally, so a counted pipe can still be hit while its right
\* edge is not behind the bird's x, and never after.
C16_CrashOnlyWhileOverlapping ==
    Crashed =>
        /\ obs.crashX + assets.pipe_w > BIRD_X
        /\ obs.crashX < BIRD_X + assets.bird_w
        /\ obs.crashPassed <=> obs.crashX < BIRD_X - PIPE_VEL
        /\ obs.crashPassed => score >= 1

C16_Witness == Crashed /\ obs.crashPassed /\ score = 1 /\ obs.crashX < BIRD_X - 50

\* C17: in every tick of eval_genomes with an alive agent the pipe observed
\* is the first, unless two pipes are live and 230 > first.x + pipe width,
\* when it is the second; it is the leftmost live pipe whose right edge is
\* not behind x = 230.
C17_ObservedPipe ==
    [][(mode = "eval" /\ ticks' = ticks + 1) =>
          LET w == assets.pipe_w
              rule == IF Len(pipes) >= 2 /\ BIRD_X > pipes[1].x + w THEN 2 ELSE 1
          IN  /\ obs'.ind = rule
              /\ obs'.ind \in DOMAIN pipes
              /\ pipes[obs'.ind].x + w >= BIRD_X
              /\ \A k \in 1..(obs'.ind - 1) : pipes[k].x + w < BIRD_X]_vars

C17_Witness ==
    /\ mode = "eval" /\ obs.ind = 2 /\ Len(pipes) = 2
    /\ \E i \in Agents : birds[i].alive

\* what the collision, ground and score tests of the next tick read of a bird
\* after one move() and draw(): position, velocity, sprite, alive flag
AfterTick(b) ==
    LET n == BirdDraw(BirdMove(b))
    IN  [y |-> n.y, vel |-> n.vel, tick_count |-> n.tick_count,
         height |-> n.height, img |-> n.img, alive |-> n.alive]

\* C18: two runs that agree on everything but a bird's tilt agree, after the
\* next move() and draw(), on its y, velocity, sprite and alive flag and on
\* the boundary test; checked from every reachable bird against the same bird
\* with the tilt replaced.
C18_TiltNoEffect ==
    mode \in {"eval", "main"} =>
        \A i \in Agents, t \in {MAX_ROTATION, 0, MIN_TILT} :
            birds[i].alive =>
                LET other == [birds[i] EXCEPT !.tilt = t]
                IN  /\ AfterTick(other) = AfterTick(birds[i])
                    /\ OutOfBounds(BirdMove(other), base, assets)
                         = OutOfBounds(BirdMove(birds[i]), base, assets)

\* C19: at the start of every tick of both loops the pipe list is non-empty
\* and strictly increasing in x, its last pipe is the only one not passed,
\* every pipe removed so far had been passed, and pipe_ind is within the list.
C19_PipeList ==
    (mode \in {"eval", "main"} /\ pc = "running") =>
        /\ Len(pipes) >= 1
        /\ \A j \in DOMAIN pipes, k \in DOMAIN pipes :
               j < k => pipes[j].x < pipes[k].x
        /\ \A j \in DOMAIN pipes : pipes[j].passed <=> j < Len(pipes)
        /\ obs.removedPassed = obs.removed
        /\ (\E i \in Agents : birds[i].alive) =>
               PipeInd(pipes, AliveBirds(birds), assets) \in DOMAIN pipes

C19_Witness ==
    /\ mode = "eval" /\ pc = "running" /\ Len(pipes) = 2 /\ obs.removed = 1
    /\ pipes[1].passed /\ \E i \in Agents : birds[i].alive

====
